---- MODULE Spec2Model ----
(***************************************************************************)
(* Solar PV Security Alarm System (src/src/App.js): the ingestion-to-alert *)
(* pipeline (processData), the alert list (dismissAlert, clearData) and    *)
(* the rule store (saveRule, editRule, deleteRule).                        *)
(*                                                                         *)
(* Representation.  Text that the code parses (power, voltage, the rule    *)
(* form's value) is a sequence of one-character strings, so that           *)
(* parseFloat, toFixed and String(number) are computed and not assumed.    *)
(* The alphabet is sign, digits and letters: numbers are whole units, and  *)
(* arithmetic is exact (no rounding of IEEE doubles is modelled).          *)
(* A JavaScript number is [nan, v]; a Date is its time value, an integer   *)
(* on the same axis as the clock Date.now(); null is 0 (ids are positive). *)
(***************************************************************************)
EXTENDS Integers, Sequences, FiniteSets, TLC

VARIABLES
    panels,            \* useState panels: the Readings of the current batch
    alerts,            \* useState alerts: the live alert list
    rules,             \* useState rules: the Rule Store
    ruleForm,          \* useState ruleForm: the draft and its edit target
    powerThreshold,    \* useState powerThreshold
    voltageThreshold,  \* useState voltageThreshold
    now,               \* the clock read by Date.now() and new Date()
    data,              \* argument of the most recent processData call
    sounds,            \* playTheftAlertSound / playWarningAlertSound calls of that call
    lastOp             \* the handler that ran last

vars == <<panels, alerts, rules, ruleForm, powerThreshold, voltageThreshold,
          now, data, sounds, lastOp>>

----------------------------------------------------------------------------
(* Bounds *)

\* rows of a batch, application specification
MaxRows == 1

\* rows of a batch, parser specification
MaxParseRows == 2

\* rows of a batch, statistics specification
MaxStatRows == 6

\* rows of a batch, alert specification
MaxAlertRows == 3

\* rows of a batch, rule engine specification
MaxEngineRows == 1

\* rows of a batch, id specification
MaxIdRows == 2

\* clock advances during one run, id specification
MaxIdTicks == 2

\* rules in the store
MaxRules == 2

\* last clock value explored
MaxClock == 2

\* rows of a batch, worked example of the three statuses
MaxExampleRows == 3

\* rows of a batch, worked example of the outlier
MaxOutlierRows == 6

----------------------------------------------------------------------------
(* Numbers and text *)

NaN == [nan |-> TRUE, v |-> 0]

Num(n) == [nan |-> FALSE, v |-> n]

Digits == <<"0", "1", "2", "3", "4", "5", "6", "7", "8", "9">>

IsDigit(c) == \E d \in 1..10 : Digits[d] = c

DigitVal(c) == (CHOOSE d \in 1..10 : Digits[d] = c) - 1

RECURSIVE ParseDigits(_, _, _)
ParseDigits(s, i, acc) ==
    IF i > Len(s) \/ ~IsDigit(s[i]) THEN acc
    ELSE ParseDigits(s, i + 1, acc * 10 + DigitVal(s[i]))

\* parseFloat on text: optional sign, then the longest run of digits; NaN when
\* there is no digit to read.  Trailing text is ignored ("12abc" is 12).
ParseFloat(s) ==
    LET signed == Len(s) > 0 /\ s[1] \in {"-", "+"}
        start  == IF signed THEN 2 ELSE 1
        mag    == ParseDigits(s, start, 0)
    IN  IF start <= Len(s) /\ IsDigit(s[start])
        THEN Num(IF signed /\ s[1] = "-" THEN 0 - mag ELSE mag)
        ELSE NaN

RECURSIVE NatToStr(_)
NatToStr(n) ==
    IF n < 10 THEN <<Digits[n + 1]>>
    ELSE NatToStr(n \div 10) \o <<Digits[(n % 10) + 1]>>

\* String(number) for a whole number
NumToStr(n) == IF n < 0 THEN <<"-">> \o NatToStr(0 - n) ELSE NatToStr(n)

\* as ToFixed2, but without the two decimals
ToFixed0(n) == NumToStr(n)

\* Number.prototype.toFixed(2) for a whole number
ToFixed2(n) == NumToStr(n) \o <<".", "0", "0">>

\* new Date(text).getTime(): the time value, NaN for an Invalid Date
ParseDate(s) ==
    CASE s = "t1" -> Num(1)
      [] s = "t2" -> Num(2)
      [] s = "t3" -> Num(3)
      [] OTHER    -> NaN

RECURSIVE SumSeq(_)
SumSeq(s) == IF s = <<>> THEN 0 ELSE Head(s) + SumSeq(Tail(s))

RECURSIVE Flat(_)
Flat(ss) == IF ss = <<>> THEN <<>> ELSE Head(ss) \o Flat(Tail(ss))

\* Date.now() at the k-th id assignment of a run that starts at clock t0, when
\* the clock advances by one just before each assignment named in ticks
ClockAt(t0, ticks, k) == t0 + Cardinality({j \in ticks : j <= k})

----------------------------------------------------------------------------
(* processData: rows to Readings *)

\* as RowOk, but a row whose power does not parse is rejected
RowOkStrict(row) ==
    /\ row.id_panel # ""
    /\ row.power # <<>>
    /\ ~ParseFloat(row.power).nan
    /\ row.voltage # <<>>
    /\ row.timestamp # ""

\* .filter(row => row.id_panel && row.power && row.voltage && row.timestamp)
RowOk(row) ==
    /\ row.id_panel # ""
    /\ row.power # <<>>
    /\ row.voltage # <<>>
    /\ row.timestamp # ""

\* as Classify, but a power equal to the threshold is low
ClassifyInclusive(power, threshold) ==
    IF power.nan \/ power.v = 0 THEN "offline"
    ELSE IF power.v <= threshold THEN "low"
    ELSE "normal"

\* the status assigned in the map callback
Classify(power, threshold) ==
    IF power.nan \/ power.v = 0 THEN "offline"
    ELSE IF power.v < threshold THEN "low"
    ELSE "normal"

\* as MakePanel, but the Reading is always stamped with the processing time
MakePanelStamped(row, k, t, threshold) ==
    LET power     == ParseFloat(row.power)
        voltage   == ParseFloat(row.voltage)
    IN  [_id         |-> t + k,
         id_panel    |-> row.id_panel,
         powerOut    |-> IF ~power.nan THEN power.v ELSE 0,
         voltage     |-> IF ~voltage.nan THEN voltage.v ELSE 0,
         panelStatus |-> Classify(power, threshold),
         when        |-> t]

\* the Reading built from the k-th kept row (tempId = k), clock read t
MakePanel(row, k, t, threshold) ==
    LET power     == ParseFloat(row.power)
        voltage   == ParseFloat(row.voltage)
        timestamp == ParseDate(row.timestamp)
    IN  [_id         |-> t + k,
         id_panel    |-> row.id_panel,
         powerOut    |-> IF ~power.nan THEN power.v ELSE 0,
         voltage     |-> IF ~voltage.nan THEN voltage.v ELSE 0,
         panelStatus |-> Classify(power, threshold),
         when        |-> IF timestamp.nan THEN t ELSE timestamp.v]

ParsedData(d, t0, ticks, threshold) ==
    LET kept == SelectSeq(d, RowOk)
    IN  [i \in 1..Len(kept) |->
            MakePanel(kept[i], i - 1, ClockAt(t0, ticks, i - 1), threshold)]

----------------------------------------------------------------------------
(* processData: statistics over the batch *)

\* as PowerOutputs, but the offline Readings are counted in the statistics
PowerOutputsAll(parsed) ==
    LET vals == [i \in 1..Len(parsed) |-> parsed[i].powerOut]
    IN  SelectSeq(vals, LAMBDA val : val >= 0)

\* .map(p => p.powerOut).filter(val => !isNaN(val) && val > 0)
PowerOutputs(parsed) ==
    LET vals == [i \in 1..Len(parsed) |-> parsed[i].powerOut]
    IN  SelectSeq(vals, LAMBDA val : val > 0)

\* meanPower = sum / n and stdDevPower = sqrt(sum((val - meanPower)^2) / n) are
\* kept as exact fractions: meanPower = MeanNum / n, and
\* stdDevPower^2 = DevSq / n^3 with DevSq = sum((n * val - MeanNum)^2).
MeanNum(outputs) == SumSeq(outputs)

DevSq(outputs) ==
    LET n == Len(outputs)
        m == MeanNum(outputs)
    IN  SumSeq([i \in 1..n |-> (n * outputs[i] - m) * (n * outputs[i] - m)])

\* as IsAnomaly, but one standard deviation is enough
IsAnomalyOneSigma(powerOut, outputs) ==
    LET n == Len(outputs)
        m == MeanNum(outputs)
    IN  /\ n > 0
        /\ m > 0
        /\ DevSq(outputs) > 0
        /\ n * (n * powerOut - m) * (n * powerOut - m) > DevSq(outputs)

\* meanPower > 0 && stdDevPower > 0 && Math.abs(p.powerOut - meanPower) > 2 * stdDevPower
\* |p - m/n| > 2 sqrt(DevSq / n^3)  <=>  n (n p - m)^2 > 4 DevSq
IsAnomaly(powerOut, outputs) ==
    LET n == Len(outputs)
        m == MeanNum(outputs)
    IN  /\ n > 0
        /\ m > 0
        /\ DevSq(outputs) > 0
        /\ n * (n * powerOut - m) * (n * powerOut - m) > 4 * DevSq(outputs)

----------------------------------------------------------------------------
(* processData: alerts of one Reading *)

\* an alert message: the template literal and what is interpolated into it
Msg(tpl, id, num) == [tpl |-> tpl, id |-> id, num |-> num]

\* the alert pushed for p before its id is assigned
Draft(p, message, severity) ==
    [id_panel |-> p.id_panel, alertMessage |-> message,
     severityLevel |-> severity, when |-> p.when]

StatusAlerts(p) ==
    IF p.panelStatus = "offline"
    THEN <<Draft(p, Msg("Panel {id} is offline: Potential theft detected",
                        p.id_panel, <<>>), "critical")>>
    ELSE IF p.panelStatus = "low"
    THEN <<Draft(p, Msg("Panel {id} has low power: {num}W",
                        p.id_panel, ToFixed2(p.powerOut)), "warning")>>
    ELSE <<>>

VoltageAlerts(p, vThreshold) ==
    IF p.voltage < vThreshold
    THEN <<Draft(p, Msg("Panel {id} has low voltage: {num}V",
                        p.id_panel, ToFixed2(p.voltage)), "warning")>>
    ELSE <<>>

AnomalyAlerts(p, outputs) ==
    IF IsAnomaly(p.powerOut, outputs)
    THEN <<Draft(p, Msg("Anomaly in {id}: Power {num}W deviates significantly",
                        p.id_panel, ToFixed2(p.powerOut)), "warning")>>
    ELSE <<>>

\* as ConditionMet, but '<' also holds at the threshold
ConditionMetInclusive(rule, p) ==
    LET value     == IF rule.metric = "power" THEN p.powerOut ELSE p.voltage
        threshold == ParseFloat(NumToStr(rule.value))
    IN  \/ rule.condition = "<" /\ ~threshold.nan /\ value <= threshold.v
        \/ rule.condition = ">" /\ ~threshold.nan /\ value > threshold.v
        \/ rule.condition = "=" /\ ~threshold.nan /\ value = threshold.v

\* the three branches of conditionMet
ConditionMet(rule, p) ==
    LET value     == IF rule.metric = "power" THEN p.powerOut ELSE p.voltage
        threshold == ParseFloat(NumToStr(rule.value))
    IN  \/ rule.condition = "<" /\ ~threshold.nan /\ value < threshold.v
        \/ rule.condition = ">" /\ ~threshold.nan /\ value > threshold.v
        \/ rule.condition = "=" /\ ~threshold.nan /\ value = threshold.v

\* rule.message || `Custom alert: ${rule.metric} ${rule.condition} ${rule.value}`
RuleMessage(rule) ==
    IF rule.message # "" THEN Msg(rule.message, "", <<>>)
    ELSE Msg("Custom alert: {metric} {condition} {value}",
             rule.metric, <<rule.condition>> \o NumToStr(rule.value))

\* rules.forEach(...)
RuleAlerts(p, rs) ==
    LET one(rule) == IF ConditionMet(rule, p)
                     THEN <<Draft(p, RuleMessage(rule), rule.severity)>>
                     ELSE <<>>
    IN  Flat([i \in 1..Len(rs) |-> one(rs[i])])

\* as PanelAlerts, but the anomaly test comes before the voltage test
PanelAlertsSwapped(p, rs, vThreshold, outputs) ==
    StatusAlerts(p) \o AnomalyAlerts(p, outputs)
        \o VoltageAlerts(p, vThreshold) \o RuleAlerts(p, rs)

\* the array returned by the map callback for p, ids not yet assigned
PanelAlerts(p, rs, vThreshold, outputs) ==
    StatusAlerts(p) \o VoltageAlerts(p, vThreshold)
        \o AnomalyAlerts(p, outputs) \o RuleAlerts(p, rs)

\* as WithId, but the id is the clock value alone
WithClockId(a, k, t) ==
    [_id |-> t, id_panel |-> a.id_panel, alertMessage |-> a.alertMessage,
     severityLevel |-> a.severityLevel, when |-> a.when]

\* _id: Date.now() + tempId++ for the k-th id assignment of the run
WithId(a, k, t) ==
    [_id |-> t + k, id_panel |-> a.id_panel, alertMessage |-> a.alertMessage,
     severityLevel |-> a.severityLevel, when |-> a.when]

\* newAlerts: .map(...).flat(); tempId continues after the Readings' ids
NewAlerts(parsed, rs, vThreshold, t0, ticks) ==
    LET outputs == PowerOutputs(parsed)
        drafts  == Flat([i \in 1..Len(parsed) |->
                            PanelAlerts(parsed[i], rs, vThreshold, outputs)])
        n       == Len(parsed)
    IN  [j \in 1..Len(drafts) |->
            WithId(drafts[j], n + j - 1, ClockAt(t0, ticks, n + j - 1))]

\* as Sounds, but every rule match plays the warning sound
SoundsRuleWarning(parsed, rs, vThreshold) ==
    LET outputs    == PowerOutputs(parsed)
        status(s)  == Len(SelectSeq(parsed, LAMBDA p : p.panelStatus = s))
        matches(p) == SelectSeq(rs, LAMBDA rule : ConditionMet(rule, p))
        warn(p)    == Len(VoltageAlerts(p, vThreshold)) + Len(AnomalyAlerts(p, outputs))
                        + Len(matches(p))
    IN  [critical |-> status("offline"),
         warning  |-> status("low") + SumSeq([i \in 1..Len(parsed) |-> warn(parsed[i])])]

\* calls of playTheftAlertSound and playWarningAlertSound in one run: in the
\* first map for an offline or low status, in the second map after the voltage
\* and anomaly pushes and after each rule match
Sounds(parsed, rs, vThreshold) ==
    LET outputs    == PowerOutputs(parsed)
        status(s)  == Len(SelectSeq(parsed, LAMBDA p : p.panelStatus = s))
        matches(p) == SelectSeq(rs, LAMBDA rule : ConditionMet(rule, p))
        theft(p)   == Len(SelectSeq(matches(p), LAMBDA rule : rule.severity = "critical"))
        warn(p)    == Len(VoltageAlerts(p, vThreshold)) + Len(AnomalyAlerts(p, outputs))
                        + Len(SelectSeq(matches(p), LAMBDA rule : rule.severity # "critical"))
    IN  [critical |-> status("offline") + SumSeq([i \in 1..Len(parsed) |-> theft(parsed[i])]),
         warning  |-> status("low") + SumSeq([i \in 1..Len(parsed) |-> warn(parsed[i])])]

----------------------------------------------------------------------------
(* Handlers *)

\* lastOp: the handler that ran last and the id it was given.  For processData,
\* arg is the id dismissed by the handler just before it (0 if that was no
\* dismissal) and rerun tells that the call before it had the same argument.
Did(op, arg) == [op |-> op, arg |-> arg, rerun |-> FALSE]

\* setPanels(parsedData)
SetPanels(old, parsed) == parsed

\* as SetAlerts, but the new alerts are added to the list
MergeAlerts(old, new) == old \o new

\* setAlerts(newAlerts)
SetAlerts(old, new) == new

\* processData(data), the clock advancing as ticks says while it runs
ProcessData(d, ticks) ==
    LET parsed == ParsedData(d, now, ticks, powerThreshold)
        new    == NewAlerts(parsed, rules, voltageThreshold, now, ticks)
    IN  /\ ticks \subseteq 0..(Len(parsed) + Len(new) - 1)
        /\ panels' = SetPanels(panels, parsed)
        /\ alerts' = SetAlerts(alerts, new)
        /\ now' = now + Cardinality(ticks)
        /\ data' = d
        /\ sounds' = Sounds(parsed, rules, voltageThreshold)
        /\ lastOp' = [op    |-> "processData",
                      arg   |-> IF lastOp.op = "dismissAlert" THEN lastOp.arg ELSE 0,
                      rerun |-> lastOp.op = "processData" /\ d = data]
        /\ UNCHANGED <<rules, ruleForm, powerThreshold, voltageThreshold>>

\* alerts.filter(a => a._id !== alertId)
WithoutAlert(as, alertId) == SelectSeq(as, LAMBDA a : a._id # alertId)

\* dismissAlert(selectedAlert._id), the alert picked from the list shown
DismissAlert ==
    \E i \in 1..Len(alerts) :
        /\ alerts' = WithoutAlert(alerts, alerts[i]._id)
        /\ lastOp' = Did("dismissAlert", alerts[i]._id)
        /\ UNCHANGED <<panels, rules, ruleForm, powerThreshold, voltageThreshold,
                       now, data, sounds>>

\* as ClearedAlerts, but the alert list is not reset
KeptAlerts(as) == as

\* what clearData leaves in the alert list
ClearedAlerts(as) == <<>>

ClearData ==
    /\ panels' = <<>>
    /\ alerts' = ClearedAlerts(alerts)
    /\ rules' = <<>>
    /\ lastOp' = Did("clearData", 0)
    /\ UNCHANGED <<ruleForm, powerThreshold, voltageThreshold, now, data, sounds>>

\* setPowerThreshold(parseFloat(e.target.value) || 50)
ThresholdOr(text, default) ==
    LET x == ParseFloat(text)
    IN  IF x.nan \/ x.v = 0 THEN default ELSE x.v

\* the clock advances between handlers
Tick ==
    /\ now < MaxClock
    /\ now' = now + 1
    /\ UNCHANGED <<panels, alerts, rules, ruleForm, powerThreshold,
                   voltageThreshold, data, sounds, lastOp>>

----------------------------------------------------------------------------
(* Rule Store *)

\* the form's value: text typed into the input, or the number editRule copies
Text(s) == [isNum |-> FALSE, s |-> s, n |-> 0]

Number(n) == [isNum |-> TRUE, s |-> <<>>, n |-> n]

\* !x for a form value: the empty string and the number 0 are falsy
Falsy(x) == IF x.isNum THEN x.n = 0 ELSE x.s = <<>>

\* parseFloat(x): a number is converted to text first
ParseValue(x) == IF x.isNum THEN ParseFloat(NumToStr(x.n)) ELSE ParseFloat(x.s)

BlankForm ==
    [metric |-> "power", condition |-> "<", value |-> Text(<<>>),
     severity |-> "warning", message |-> "", editId |-> 0]

\* as Rejected, but a draft with an empty message passes
RejectedOnValue(form) == Falsy(form.value) \/ ParseValue(form.value).nan

\* the guard of saveRule's early return
Rejected(form) ==
    Falsy(form.value) \/ ParseValue(form.value).nan \/ form.message = ""

NewRule(form, t) ==
    [_id       |-> IF form.editId # 0 THEN form.editId ELSE t,
     metric    |-> form.metric,
     condition |-> form.condition,
     value     |-> ParseValue(form.value).v,
     severity  |-> form.severity,
     message   |-> form.message]

\* rules.map(r => (r._id === ruleForm.editId ? newRule : r))
ReplaceRule(rs, editId, newRule) ==
    [i \in 1..Len(rs) |-> IF rs[i]._id = editId THEN newRule ELSE rs[i]]

\* the form after a successful save
FormAfterSave(form) == BlankForm

SaveRule ==
    IF Rejected(ruleForm)
    THEN /\ lastOp' = Did("saveRule rejected", ruleForm.editId)
         /\ UNCHANGED <<panels, alerts, rules, ruleForm, powerThreshold,
                        voltageThreshold, now, data, sounds>>
    ELSE /\ rules' = IF ruleForm.editId # 0
                     THEN ReplaceRule(rules, ruleForm.editId, NewRule(ruleForm, now))
                     ELSE Append(rules, NewRule(ruleForm, now))
         /\ Len(rules') <= MaxRules
         /\ ruleForm' = FormAfterSave(ruleForm)
         /\ lastOp' = Did("saveRule", ruleForm.editId)
         /\ UNCHANGED <<panels, alerts, powerThreshold, voltageThreshold, now,
                        data, sounds>>

\* handleRuleChange: one field of the form takes the typed or selected value
HandleRuleChange(fields) ==
    \E f \in fields :
        /\ ruleForm' = [ruleForm EXCEPT ![f[1]] = f[2]]
        /\ lastOp' = Did("handleRuleChange", 0)
        /\ UNCHANGED <<panels, alerts, rules, powerThreshold, voltageThreshold,
                       now, data, sounds>>

\* the Add Rule button: a blank draft
StartCreate ==
    /\ ruleForm' = BlankForm
    /\ lastOp' = Did("startCreate", 0)
    /\ UNCHANGED <<panels, alerts, rules, powerThreshold, voltageThreshold,
                   now, data, sounds>>

EditRule ==
    \E i \in 1..Len(rules) :
        /\ ruleForm' = [metric    |-> rules[i].metric,
                        condition |-> rules[i].condition,
                        value     |-> Number(rules[i].value),
                        severity  |-> rules[i].severity,
                        message   |-> rules[i].message,
                        editId    |-> rules[i]._id]
        /\ lastOp' = Did("editRule", rules[i]._id)
        /\ UNCHANGED <<panels, alerts, rules, powerThreshold, voltageThreshold,
                       now, data, sounds>>

\* as WithoutRule, but only the first Rule with that id is removed
WithoutFirstRule(rs, ruleId) ==
    LET hits == {i \in 1..Len(rs) : rs[i]._id = ruleId}
        at   == IF hits = {} THEN 0 ELSE CHOOSE i \in hits : \A j \in hits : i <= j
    IN  [k \in 1..(Len(rs) - (IF at = 0 THEN 0 ELSE 1)) |->
            IF at = 0 \/ k < at THEN rs[k] ELSE rs[k + 1]]

\* rules.filter(r => r._id !== ruleId)
WithoutRule(rs, ruleId) == SelectSeq(rs, LAMBDA r : r._id # ruleId)

DeleteRule ==
    \E ruleId \in 1..MaxClock :
        /\ rules' = WithoutRule(rules, ruleId)
        /\ lastOp' = Did("deleteRule", ruleId)
        /\ UNCHANGED <<panels, alerts, ruleForm, powerThreshold, voltageThreshold,
                       now, data, sounds>>

----------------------------------------------------------------------------
(* Specifications *)

SeqsUpTo(S, n) == UNION {[1..k -> S] : k \in 0..n}

Fresh ==
    /\ panels = <<>>
    /\ alerts = <<>>
    /\ ruleForm = BlankForm
    /\ now = 1
    /\ data = <<>>
    /\ sounds = [critical |-> 0, warning |-> 0]
    /\ lastOp = Did("init", 0)

\* The application: every handler, on a small alphabet of rows and drafts.
AppRows ==
    [id_panel : {"PV001", "PV002"}, power : {<<"0">>, <<"5", "0", "0">>},
     voltage : {<<"2", "2", "0">>}, timestamp : {"t1", "bad"}]

AppFields ==
    {<<"value", Text(<<"1", "0", "0">>)>>, <<"message", "offline rule">>,
     <<"message", "">>}

Init ==
    /\ Fresh
    /\ rules = <<>>
    /\ powerThreshold = 50
    /\ voltageThreshold = 200

Submit == \E d \in SeqsUpTo(AppRows, MaxRows) : ProcessData(d, {})

Next ==
    \/ Submit
    \/ DismissAlert
    \/ ClearData
    \/ HandleRuleChange(AppFields)
    \/ StartCreate
    \/ SaveRule
    \/ EditRule
    \/ DeleteRule
    \/ Tick

Spec == Init /\ [][Next]_vars

\* The Record Parser and the Classifier: one run of processData from the fresh
\* application, on rows whose fields are each empty, unparseable or a value.
ParseRows ==
    [id_panel : {"", "PV001"},
     power : {<<>>, <<"a", "b", "c">>, <<"0">>, <<"3", "0">>},
     voltage : {<<>>, <<"a", "b", "c">>, <<"2", "2", "0">>},
     timestamp : {"", "bad", "t1"}]

InitParse ==
    /\ Fresh
    /\ rules = <<>>
    /\ powerThreshold \in {ThresholdOr(text, 50) : text \in {<<>>, <<"3", "0">>}}
    /\ voltageThreshold = 200

RunParse ==
    /\ lastOp.op = "init"
    /\ \E d \in SeqsUpTo(ParseRows, MaxParseRows) : ProcessData(d, {})

NextParse == RunParse

SpecParse == InitParse /\ [][NextParse]_vars

\* The Statistics Engine: one run on batches long enough for a positive outlier.
StatRows ==
    [id_panel : {"PV001"}, power : {<<"0">>, <<"1">>, <<"9">>, <<"-", "1">>},
     voltage : {<<"2", "2", "0">>}, timestamp : {"t1"}]

InitStats ==
    /\ Fresh
    /\ rules = <<>>
    /\ powerThreshold = 50
    /\ voltageThreshold = 200

RunStats ==
    /\ lastOp.op = "init"
    /\ \E d \in SeqsUpTo(StatRows, MaxStatRows) : ProcessData(d, {})

NextStats == RunStats

SpecStats == InitStats /\ [][NextStats]_vars

\* The Alert Aggregator: one run on batches in which every kind of alert occurs.
AlertRows ==
    [id_panel : {"PV001"}, power : {<<"0">>, <<"3", "0">>, <<"5", "0">>},
     voltage : {<<"1", "5", "0">>, <<"2", "2", "0">>}, timestamp : {"t1"}]

AlertRules ==
    {[_id |-> 1, metric |-> "power", condition |-> "<", value |-> 40,
      severity |-> "critical", message |-> "power under 40"],
     [_id |-> 2, metric |-> "power", condition |-> ">", value |-> 40,
      severity |-> "warning", message |-> "power over 40"]}

InitAlerts ==
    /\ Fresh
    /\ rules \in SeqsUpTo(AlertRules, MaxRules)
    /\ powerThreshold = 50
    /\ voltageThreshold = 200

RunAlerts ==
    /\ lastOp.op = "init"
    /\ \E d \in SeqsUpTo(AlertRows, MaxAlertRows) : ProcessData(d, {})

NextAlerts == RunAlerts

SpecAlerts == InitAlerts /\ [][NextAlerts]_vars

\* The Rule Engine: one run on every Rule Store over the form's metrics,
\* conditions and severities; a stored Rule may have an empty message (the
\* store is loaded from localStorage on mount).
EngineRows ==
    [id_panel : {"PV001"}, power : {<<"5", "0">>, <<"1", "0", "0">>, <<"1", "5", "0">>},
     voltage : {<<"1", "0", "0">>}, timestamp : {"t1"}]

EngineRules ==
    [_id : {1}, metric : {"power", "voltage"}, condition : {"<", ">", "="},
     value : {100}, severity : {"warning", "critical"}, message : {"", "custom"}]

InitEngine ==
    /\ Fresh
    /\ rules \in SeqsUpTo(EngineRules, MaxRules)
    /\ powerThreshold = 50
    /\ voltageThreshold = 200

RunEngine ==
    /\ lastOp.op = "init"
    /\ \E d \in SeqsUpTo(EngineRows, MaxEngineRows) : ProcessData(d, {})

NextEngine == RunEngine

SpecEngine == InitEngine /\ [][NextEngine]_vars

\* Alert ids: one run during which the clock advances at any id assignments.
IdRows ==
    [id_panel : {"PV001"}, power : {<<"0">>, <<"5", "0", "0">>},
     voltage : {<<"1", "5", "0">>, <<"2", "2", "0">>}, timestamp : {"t1"}]

IdRules ==
    {[_id |-> 1, metric |-> "power", condition |-> "<", value |-> 100,
      severity |-> "critical", message |-> "power under 100"]}

InitIds ==
    /\ Fresh
    /\ rules \in SeqsUpTo(IdRules, 1)
    /\ powerThreshold = 50
    /\ voltageThreshold = 200

RunIds ==
    /\ lastOp.op = "init"
    /\ \E d \in SeqsUpTo(IdRows, MaxIdRows) :
       \E ticks \in SUBSET (0..(4 * MaxIdRows - 1)) :
          /\ Cardinality(ticks) <= MaxIdTicks
          /\ ProcessData(d, ticks)

NextIds == RunIds

SpecIds == InitIds /\ [][NextIds]_vars

\* The worked example of the three statuses: one run with the default
\* thresholds and an empty Rule Store on rows of its powers, voltages and times.
ExampleRows ==
    [id_panel : {"PV001"}, power : {<<"0">>, <<"3", "0">>, <<"5", "0", "0">>},
     voltage : {<<"1", "5", "0">>, <<"2", "2", "0">>},
     timestamp : {"t1", "t2", "t3"}]

InitExample ==
    /\ Fresh
    /\ rules = <<>>
    /\ powerThreshold = 50
    /\ voltageThreshold = 200

RunExample ==
    /\ lastOp.op = "init"
    /\ \E d \in SeqsUpTo(ExampleRows, MaxExampleRows) : ProcessData(d, {})

NextExample == RunExample

SpecExample == InitExample /\ [][NextExample]_vars

\* The worked example of the outlier: one run, under default and operator-set
\* thresholds, on batches of Readings of power 100 and 1000.
OutlierRows ==
    [id_panel : {"PV001"}, power : {<<"1", "0", "0">>, <<"1", "0", "0", "0">>},
     voltage : {<<"2", "2", "0">>}, timestamp : {"t1"}]

InitOutlier ==
    /\ Fresh
    /\ rules = <<>>
    /\ powerThreshold \in {ThresholdOr(text, 50) : text \in {<<>>, <<"2", "0", "0">>}}
    /\ voltageThreshold \in {ThresholdOr(text, 200) : text \in {<<>>, <<"2", "5", "0">>}}

RunOutlier ==
    /\ lastOp.op = "init"
    /\ \E d \in SeqsUpTo(OutlierRows, MaxOutlierRows) : ProcessData(d, {})

NextOutlier == RunOutlier

SpecOutlier == InitOutlier /\ [][NextOutlier]_vars

\* The Rule Store: the form and the store under every rule handler.
RuleFields ==
    {<<"metric", "power">>, <<"metric", "voltage">>,
     <<"value", Text(<<>>)>>, <<"value", Text(<<"0">>)>>,
     <<"value", Text(<<"7">>)>>, <<"value", Text(<<"x">>)>>,
     <<"message", "">>, <<"message", "a">>}

NextRules ==
    \/ HandleRuleChange(RuleFields)
    \/ StartCreate
    \/ SaveRule
    \/ EditRule
    \/ DeleteRule
    \/ ClearData
    \/ Tick

SpecRules == Init /\ [][NextRules]_vars

----------------------------------------------------------------------------
(* Claims *)

Ran == lastOp.op = "processData"

\* the rows of d in which all four required fields are present and non-empty
ValidIdx(d) ==
    {i \in 1..Len(d) : d[i].id_panel # "" /\ d[i].power # <<>>
                        /\ d[i].voltage # <<>> /\ d[i].timestamp # ""}

\* the index in d of its k-th such row
NthValid(d, k) ==
    CHOOSE i \in ValidIdx(d) : Cardinality({j \in ValidIdx(d) : j <= i}) = k

\* C2: the status of a Reading is offline iff the parsed power is not-a-number
\* or 0, low iff it is not offline and the parsed power is below the power
\* threshold, normal otherwise; and it is offline iff the stored powerOut is 0.
C2_StatusFromPower ==
    (Ran /\ Len(panels) = Cardinality(ValidIdx(data))) =>
        \A k \in 1..Len(panels) :
            LET p       == ParseFloat(data[NthValid(data, k)].power)
                offline == p.nan \/ p.v = 0
                low     == ~offline /\ p.v < powerThreshold
            IN  /\ panels[k].panelStatus = "offline" <=> offline
                /\ panels[k].panelStatus = "low" <=> low
                /\ panels[k].panelStatus = "normal" <=> (~offline /\ ~low)
                /\ panels[k].panelStatus = "offline" <=> panels[k].powerOut = 0

\* a Reading whose power equals the threshold is stored, and one below it
C2_Witness ==
    /\ Ran
    /\ \E k \in 1..Len(panels) :
          panels[k].powerOut = powerThreshold /\ panels[k].panelStatus = "normal"
    /\ \E k \in 1..Len(panels) : panels[k].panelStatus = "offline"

\* C3: processData stores one Reading per row whose four required fields are
\* all non-empty and none for any other row, in row order; a row with an
\* unparseable power or voltage is kept with that value stored as 0.
C3_OneReadingPerValidRow ==
    Ran =>
        /\ Len(panels) = Cardinality(ValidIdx(data))
        /\ \A k \in 1..Len(panels) :
              LET row == data[NthValid(data, k)]
                  pw  == ParseFloat(row.power)
                  vt  == ParseFloat(row.voltage)
              IN  /\ panels[k].id_panel = row.id_panel
                  /\ panels[k].powerOut = (IF pw.nan THEN 0 ELSE pw.v)
                  /\ panels[k].voltage = (IF vt.nan THEN 0 ELSE vt.v)
                  /\ ParseDate(row.timestamp).nan
                        \/ panels[k].when = ParseDate(row.timestamp).v

\* a malformed row is dropped before a kept row with unparseable power
C3_Witness ==
    /\ Ran
    /\ Len(data) = 2
    /\ Len(panels) = 1
    /\ ~RowOk(data[1])
    /\ ParseFloat(data[2].power).nan
    /\ panels[1].powerOut = 0

----------------------------------------------------------------------------
(* The claims on the alerts of a run, stated on the stored Readings *)

\* the stored powerOut values greater than 0, as indices into the Readings
Positive(ps) == {i \in 1..Len(ps) : ps[i].powerOut > 0}

RECURSIVE SumOver(_, _)
SumOver(f, S) ==
    IF S = {} THEN 0
    ELSE LET i == CHOOSE x \in S : TRUE IN f[i] + SumOver(f, S \ {i})

\* stdDev > 0 and |p - mean| > 2 stdDev, for the population mean and standard
\* deviation of the positive values: with n values of sum s and sum of squares
\* q, n^2 stdDev^2 = n q - s^2, and the test is (n p - s)^2 > 4 (n q - s^2)
TwoSigma(p, ps) ==
    LET n == Cardinality(Positive(ps))
        s == SumOver([i \in 1..Len(ps) |-> ps[i].powerOut], Positive(ps))
        q == SumOver([i \in 1..Len(ps) |-> ps[i].powerOut * ps[i].powerOut], Positive(ps))
    IN  /\ n > 0
        /\ n * q - s * s > 0
        /\ (n * p - s) * (n * p - s) > 4 * (n * q - s * s)

\* value < threshold for lt, value > threshold for gt, value = threshold for eq
RuleHolds(rule, r) ==
    LET value == IF rule.metric = "power" THEN r.powerOut ELSE r.voltage
    IN  CASE rule.condition = "<" -> value < rule.value
          [] rule.condition = ">" -> value > rule.value
          [] rule.condition = "=" -> value = rule.value
          [] OTHER -> FALSE

\* the kind of an alert, read off its message
Kind(a) ==
    CASE a.alertMessage.tpl = "Panel {id} is offline: Potential theft detected" -> "offline"
      [] a.alertMessage.tpl = "Panel {id} has low power: {num}W" -> "low power"
      [] a.alertMessage.tpl = "Panel {id} has low voltage: {num}V" -> "low voltage"
      [] a.alertMessage.tpl = "Anomaly in {id}: Power {num}W deviates significantly" -> "anomaly"
      [] OTHER -> "rule"

Seen(a) ==
    [kind |-> Kind(a), id_panel |-> a.id_panel, severity |-> a.severityLevel,
     when |-> a.when]

Due(r, kind, severity) ==
    [kind |-> kind, id_panel |-> r.id_panel, severity |-> severity, when |-> r.when]

\* (a) to (e) for one Reading
DueFor(r, ps, rs, vThreshold) ==
    (IF r.panelStatus = "offline" THEN <<Due(r, "offline", "critical")>>
     ELSE IF r.panelStatus = "low" THEN <<Due(r, "low power", "warning")>>
     ELSE <<>>)
    \o (IF r.voltage < vThreshold THEN <<Due(r, "low voltage", "warning")>> ELSE <<>>)
    \o (IF TwoSigma(r.powerOut, ps) THEN <<Due(r, "anomaly", "warning")>> ELSE <<>>)
    \o Flat([i \in 1..Len(rs) |->
                IF RuleHolds(rs[i], r) THEN <<Due(r, "rule", rs[i].severity)>> ELSE <<>>])

DueAll(ps, rs, vThreshold) ==
    Flat([k \in 1..Len(ps) |-> DueFor(ps[k], ps, rs, vThreshold)])

\* C1: the alerts of a run are, Reading by Reading in batch order, (a) one
\* critical offline alert iff the status is offline, (b) otherwise one warning
\* low-power alert iff it is low, (c) one warning low-voltage alert iff the
\* voltage is below the voltage threshold, (d) one warning anomaly alert iff
\* the Reading is anomalous, (e) the rule alerts in Rule Store order.
C1_AlertOrder ==
    Ran =>
        [j \in 1..Len(alerts) |-> Seen(alerts[j])]
            = DueAll(panels, rules, voltageThreshold)

\* a Reading with all of (a), (c), (d) and (e), followed by a later Reading's alert
C1_Witness ==
    /\ Ran
    /\ Len(alerts) >= 5
    /\ [j \in 1..4 |-> Kind(alerts[j])] = <<"offline", "low voltage", "anomaly", "rule">>
    /\ Kind(alerts[5]) = "low power"
    /\ Len(rules) = 2

\* C4: a Reading gets an anomaly alert iff stdDev > 0 and |powerOut - mean| >
\* 2 stdDev, mean and population stdDev taken over the stored powerOut values
\* greater than 0; offline Readings are tested too, and with no powerOut
\* greater than 0 there is no anomaly alert.
C4_AnomalyIffTwoSigma ==
    Ran =>
        LET flagged(p) == {j \in 1..Len(alerts) :
                              /\ Kind(alerts[j]) = "anomaly"
                              /\ alerts[j].alertMessage.num = ToFixed2(p)}
            having(p)  == {k \in 1..Len(panels) : panels[k].powerOut = p}
        IN  /\ \A k \in 1..Len(panels) :
                  Cardinality(flagged(panels[k].powerOut))
                      = IF TwoSigma(panels[k].powerOut, panels)
                        THEN Cardinality(having(panels[k].powerOut)) ELSE 0
            /\ Positive(panels) = {}
                  => \A j \in 1..Len(alerts) : Kind(alerts[j]) # "anomaly"

\* an offline Reading is flagged against the mean of the running panels
C4_Witness ==
    /\ Ran
    /\ \E j \in 1..Len(alerts) :
          /\ Kind(alerts[j]) = "anomaly"
          /\ alerts[j].alertMessage.num = ToFixed2(0)
    /\ \E k \in 1..Len(panels) :
          panels[k].powerOut > 0 /\ ~TwoSigma(panels[k].powerOut, panels)

\* C5: the rule alerts of a run are one alert per Reading and Rule whose
\* condition holds on the Reading, Reading by Reading and in Rule Store order,
\* each with the Rule's severity and its message, or the generated fallback
\* when the message is empty.
C5_RuleAlerts ==
    Ran =>
        LET fromRules == SelectSeq(alerts, LAMBDA a : Kind(a) = "rule")
            text(rule) == IF rule.message # "" THEN Msg(rule.message, "", <<>>)
                          ELSE Msg("Custom alert: {metric} {condition} {value}",
                                   rule.metric, <<rule.condition>> \o NumToStr(rule.value))
            due(r)     == Flat([i \in 1..Len(rules) |->
                                  IF RuleHolds(rules[i], r)
                                  THEN <<[id_panel |-> r.id_panel, message |-> text(rules[i]),
                                          severity |-> rules[i].severity, when |-> r.when]>>
                                  ELSE <<>>])
        IN  [j \in 1..Len(fromRules) |->
                [id_panel |-> fromRules[j].id_panel,
                 message  |-> fromRules[j].alertMessage,
                 severity |-> fromRules[j].severityLevel,
                 when     |-> fromRules[j].when]]
              = Flat([k \in 1..Len(panels) |-> due(panels[k])])

\* the power/lt/100 Rule matches powerOut = 50 next to a Rule that does not hold
C5_Witness ==
    /\ Ran
    /\ Len(rules) = 2
    /\ rules[1].metric = "power" /\ rules[1].condition = "=" /\ rules[1].message = ""
    /\ rules[2].metric = "power" /\ rules[2].condition = "<"
    /\ Len(panels) = 1 /\ panels[1].powerOut = 50
    /\ Len(SelectSeq(alerts, LAMBDA a : Kind(a) = "rule")) = 1

\* C7: no two alerts of one run have the same id, whatever the clock does
\* during the run, so dismissing by id removes exactly the alert chosen.
C7_UniqueAlertIds ==
    Ran =>
        /\ \A i \in 1..Len(alerts) : \A j \in 1..Len(alerts) :
              i # j => alerts[i]._id # alerts[j]._id
        /\ \A i \in 1..Len(alerts) :
              Len(WithoutAlert(alerts, alerts[i]._id)) = Len(alerts) - 1

\* three alerts of one Reading, the clock advancing between their ids
C7_Witness ==
    /\ Ran
    /\ Len(panels) = 1
    /\ Len(alerts) = 3
    /\ alerts[2]._id = alerts[1]._id + 2
    /\ alerts[3]._id = alerts[2]._id + 2

----------------------------------------------------------------------------
(* The claims on the application's state *)

\* C6: every alert in the list has the panel id of a Reading in the Readings
\* list, and its time is that Reading's.
C6_AlertsHaveReadings ==
    \A j \in 1..Len(alerts) : \E k \in 1..Len(panels) :
        /\ panels[k].id_panel = alerts[j].id_panel
        /\ panels[k].when = alerts[j].when

\* alerts remain after a dismissal, with a Rule in the store
C6_Witness ==
    /\ lastOp.op = "dismissAlert"
    /\ Len(alerts) >= 1
    /\ Len(rules) >= 1

\* C8: after a batch submission the alert list is what that batch generates,
\* whatever was in the list or was dismissed before, and the Readings are
\* those of the batch.
C8_FullReplace ==
    Ran =>
        /\ [j \in 1..Len(alerts) |-> Seen(alerts[j])]
              = DueAll(panels, rules, voltageThreshold)
        /\ Len(panels) = Cardinality(ValidIdx(data))
        /\ \A k \in 1..Len(panels) :
              panels[k].id_panel = data[NthValid(data, k)].id_panel

\* the alert dismissed just before the submission is in the list again
C8_Witness ==
    /\ Ran
    /\ lastOp.arg # 0
    /\ \E j \in 1..Len(alerts) : alerts[j]._id = lastOp.arg

Content(a) ==
    [id_panel |-> a.id_panel, alertMessage |-> a.alertMessage,
     severityLevel |-> a.severityLevel, when |-> a.when]

\* a step that submits again the batch submitted by the handler before it
Resubmission ==
    /\ lastOp.op = "processData"
    /\ lastOp'.op = "processData"
    /\ data' = data
    /\ rules' = rules
    /\ powerThreshold' = powerThreshold
    /\ voltageThreshold' = voltageThreshold

\* C9 as stated: the second run's alerts agree with the first run's, position
\* by position, on panelId, message, severity and occurredAt.
C9_SameContent ==
    [][Resubmission =>
          [j \in 1..Len(alerts') |-> Content(alerts'[j])]
              = [j \in 1..Len(alerts) |-> Content(alerts[j])]]_vars

\* C9: the second run's alerts agree with the first run's, position by
\* position, on panelId, message and severity, and on occurredAt unless the
\* alert is of a Reading whose timestamp did not parse.
C9_SameContentButStamps ==
    [][Resubmission =>
          /\ Len(alerts') = Len(alerts)
          /\ \A j \in 1..Len(alerts) :
                /\ alerts'[j].id_panel = alerts[j].id_panel
                /\ alerts'[j].alertMessage = alerts[j].alertMessage
                /\ alerts'[j].severityLevel = alerts[j].severityLevel
                /\ \/ alerts'[j].when = alerts[j].when
                   \/ \E k \in 1..Len(panels) :
                         /\ panels[k].id_panel = alerts[j].id_panel
                         /\ panels[k].when = alerts[j].when
                         /\ ParseDate(data[NthValid(data, k)].timestamp).nan]_vars

\* a batch with a parsed timestamp was submitted again after the clock advanced
C9_Witness ==
    /\ Ran
    /\ lastOp.rerun
    /\ now > 1
    /\ Len(alerts) >= 1
    /\ \A i \in 1..Len(data) : ~ParseDate(data[i].timestamp).nan

----------------------------------------------------------------------------
(* The claims on the Rule Store *)

\* the Rule that the draft in the form describes, under the id being edited
DraftRule(form) ==
    [_id       |-> form.editId,
     metric    |-> form.metric,
     condition |-> form.condition,
     value     |-> ParseValue(form.value).v,
     severity  |-> form.severity,
     message   |-> form.message]

\* a step in which saveRule accepts the draft while the edit target is the id
\* of a Rule in the store
SavedOverExisting ==
    /\ lastOp'.op = "saveRule"
    /\ \E i \in 1..Len(rules) : rules[i]._id = ruleForm.editId

\* C10: a successful save over an existing edit target keeps the length of the
\* store and the ids in their order, puts the draft's fields under the same id
\* at the edited position, leaves every other Rule unchanged and returns the
\* form to idle with a blank draft.
C10_EditInPlace ==
    [][SavedOverExisting =>
          /\ Len(rules') = Len(rules)
          /\ \A i \in 1..Len(rules) : rules'[i]._id = rules[i]._id
          /\ \E i \in 1..Len(rules) :
                /\ rules[i]._id = ruleForm.editId
                /\ rules'[i] = DraftRule(ruleForm)
                /\ \A j \in 1..Len(rules) : j # i => rules'[j] = rules[j]
          /\ ruleForm'.editId = 0
          /\ ruleForm' = BlankForm]_vars

\* a step in which saveRule accepts the draft while the edit target is set and
\* is the id of no Rule in the store
SavedOverMissing ==
    /\ lastOp'.op = "saveRule"
    /\ ruleForm.editId # 0
    /\ \A i \in 1..Len(rules) : rules[i]._id # ruleForm.editId

\* C11: a successful save whose edit target is the id of no Rule in the store
\* behaves as a create: the store grows by one Rule, placed at the end, that has
\* the draft's fields, and the Rules already stored are unchanged.
C11_MissingTargetAppends ==
    [][SavedOverMissing =>
          /\ Len(rules') = Len(rules) + 1
          /\ SubSeq(rules', 1, Len(rules)) = rules
          /\ LET r == rules'[Len(rules')]
             IN  /\ r.metric = ruleForm.metric
                 /\ r.condition = ruleForm.condition
                 /\ r.value = ParseValue(ruleForm.value).v
                 /\ r.severity = ruleForm.severity
                 /\ r.message = ruleForm.message]_vars

\* a step of saveRule, whether it accepts or rejects the draft (a Tick leaves
\* lastOp as it is and advances the clock)
SaveStep == lastOp'.op \in {"saveRule", "saveRule rejected"} /\ now' = now

\* the draft's threshold is not a number or its message is empty
InvalidDraft(form) == ParseValue(form.value).nan \/ form.message = ""

\* C12: a saveRule that rejects the draft, as it does whenever the threshold is
\* not a number or the message is empty, leaves the Rule Store, the Readings
\* and the Alerts unchanged and keeps the whole draft in the form, the edit
\* target id included.
C12_RejectedSaveKeepsAll ==
    [][(SaveStep /\ (InvalidDraft(ruleForm) \/ lastOp'.op = "saveRule rejected")) =>
          /\ lastOp'.op = "saveRule rejected"
          /\ rules' = rules
          /\ panels' = panels
          /\ alerts' = alerts
          /\ ruleForm' = ruleForm
          /\ ruleForm'.editId = lastOp'.arg]_vars

\* an edit whose draft has lost its message was rejected while the store, the
\* Readings and the Alerts were not empty
C12_Witness ==
    /\ lastOp.op = "saveRule rejected"
    /\ InvalidDraft(ruleForm)
    /\ ruleForm.editId # 0
    /\ \E i \in 1..Len(rules) : rules[i]._id = ruleForm.editId
    /\ panels # <<>>
    /\ alerts # <<>>

\* a step of deleteRule, called with the id lastOp'.arg
DeleteStep == lastOp'.op = "deleteRule" /\ now' = now

\* the positions in rs of the Rules whose id is not ruleId
KeptIdx(rs, ruleId) == {i \in 1..Len(rs) : rs[i]._id # ruleId}

\* the k-th of these positions
NthKept(rs, ruleId, k) ==
    CHOOSE i \in KeptIdx(rs, ruleId) :
        Cardinality({j \in KeptIdx(rs, ruleId) : j <= i}) = k

\* C13: deleteRule(id) leaves in the store the Rules whose id is not id, all of
\* them and in their order, and no Rule whose id is id; when no Rule has that
\* id, as in a second deleteRule of the same id, the store is unchanged; the
\* Alerts and the Readings are unchanged in every case.
C13_DeleteExactlyThatId ==
    [][DeleteStep =>
          LET ruleId == lastOp'.arg
          IN  /\ Len(rules') = Cardinality(KeptIdx(rules, ruleId))
              /\ \A k \in 1..Len(rules') : rules'[k] = rules[NthKept(rules, ruleId, k)]
              /\ (KeptIdx(rules, ruleId) = 1..Len(rules)) => rules' = rules
              /\ (lastOp.op = "deleteRule" /\ lastOp.arg = ruleId) => rules' = rules
              /\ alerts' = alerts
              /\ panels' = panels]_vars

\* a Rule was deleted and another kept while an Alert raised by a Rule and its
\* Reading are still on the lists
C13_Witness ==
    /\ lastOp.op = "deleteRule"
    /\ Len(rules) = 1
    /\ rules[1]._id # lastOp.arg
    /\ rules[1]._id > lastOp.arg
    /\ panels # <<>>
    /\ \E j \in 1..Len(alerts) : Kind(alerts[j]) = "rule"

----------------------------------------------------------------------------
(* The claims on notification events and on the worked examples *)

\* the number of alerts of the given severity
CountSeverity(as, severity) ==
    Cardinality({j \in 1..Len(as) : as[j].severityLevel = severity})

\* C14: after one run of processData the number of playTheftAlertSound calls of
\* the run is the number of generated Alerts of severity critical, and the
\* number of playWarningAlertSound calls is the number of generated Alerts of
\* severity warning.
C14_OneSoundPerAlert ==
    Ran =>
        /\ sounds.critical = CountSeverity(alerts, "critical")
        /\ sounds.warning = CountSeverity(alerts, "warning")
        /\ sounds.critical + sounds.warning = Len(alerts)

\* a run raised an offline alert, a low-power alert, a low-voltage alert, a
\* critical rule alert and a warning rule alert
C14_Witness ==
    /\ Ran
    /\ \A kind \in {"offline", "low power", "low voltage"} :
          \E j \in 1..Len(alerts) : Kind(alerts[j]) = kind
    /\ \A severity \in {"critical", "warning"} :
          \E j \in 1..Len(alerts) :
             Kind(alerts[j]) = "rule" /\ alerts[j].severityLevel = severity

\* the batch of the worked example
ExampleBatch ==
    <<[id_panel |-> "PV001", power |-> <<"0">>, voltage |-> <<"2", "2", "0">>,
       timestamp |-> "t1"],
      [id_panel |-> "PV001", power |-> <<"3", "0">>, voltage |-> <<"2", "2", "0">>,
       timestamp |-> "t2"],
      [id_panel |-> "PV001", power |-> <<"5", "0", "0">>, voltage |-> <<"1", "5", "0">>,
       timestamp |-> "t3"]>>

\* C15: with power threshold 50, voltage threshold 200 and an empty Rule Store
\* the batch (PV001, 0, 220, t1), (PV001, 30, 220, t2), (PV001, 500, 150, t3)
\* gives Readings of status offline, low, normal and exactly three Alerts: the
\* critical offline alert at t1, the warning low power 30.00W alert at t2 and
\* the warning low voltage 150.00V alert at t3.
C15_ThreeStatusExample ==
    (Ran /\ data = ExampleBatch /\ powerThreshold = 50 /\ voltageThreshold = 200
         /\ rules = <<>>) =>
        /\ [k \in 1..Len(panels) |-> panels[k].panelStatus]
              = <<"offline", "low", "normal">>
        /\ [j \in 1..Len(alerts) |->
              [id_panel |-> alerts[j].id_panel, alertMessage |-> alerts[j].alertMessage,
               severityLevel |-> alerts[j].severityLevel, when |-> alerts[j].when]]
              = <<[id_panel |-> "PV001", severityLevel |-> "critical",
                   when |-> ParseDate("t1").v,
                   alertMessage |->
                      [tpl |-> "Panel {id} is offline: Potential theft detected",
                       id |-> "PV001", num |-> <<>>]],
                  [id_panel |-> "PV001", severityLevel |-> "warning",
                   when |-> ParseDate("t2").v,
                   alertMessage |->
                      [tpl |-> "Panel {id} has low power: {num}W",
                       id |-> "PV001", num |-> <<"3", "0", ".", "0", "0">>]],
                  [id_panel |-> "PV001", severityLevel |-> "warning",
                   when |-> ParseDate("t3").v,
                   alertMessage |->
                      [tpl |-> "Panel {id} has low voltage: {num}V",
                       id |-> "PV001", num |-> <<"1", "5", "0", ".", "0", "0">>]]>>

\* the example's batch was processed
C15_Witness ==
    /\ Ran
    /\ data = ExampleBatch
    /\ powerThreshold = 50
    /\ voltageThreshold = 200
    /\ rules = <<>>
    /\ Len(panels) = 3

\* the powers stored for the batch, in order
StoredPowers == [k \in 1..Len(panels) |-> panels[k].powerOut]

\* the anomaly alerts on the list
Anomalies == SelectSeq(alerts, LAMBDA a : Kind(a) = "anomaly")

\* C16 as stated: a run on four Readings of powers 100, 100, 100 and 1000 raises
\* an anomaly alert for the Reading of power 1000.
C16_OutlierOfFourFlagged ==
    (Ran /\ StoredPowers = <<100, 100, 100, 1000>>) =>
        \E j \in 1..Len(Anomalies) :
            Anomalies[j].alertMessage.num = <<"1", "0", "0", "0", ".", "0", "0">>

\* C16: a run on four Readings of powers 100, 100, 100 and 1000 raises no
\* anomaly alert, under any thresholds (the mean is 325, the deviation about
\* 389.7, and 1000 is 675 away, less than twice the deviation); a run on five
\* Readings of power 100 followed by one of power 1000 raises exactly one
\* anomaly alert, for the Reading of power 1000.
C16_OutlierOfFourNotFlagged ==
    Ran =>
        /\ StoredPowers = <<100, 100, 100, 1000>> => Anomalies = <<>>
        /\ StoredPowers = <<100, 100, 100, 100, 100, 1000>> =>
              /\ Len(Anomalies) = 1
              /\ Anomalies[1].alertMessage.num = <<"1", "0", "0", "0", ".", "0", "0">>
              /\ Anomalies[1].severityLevel = "warning"

\* the batch of four was processed under thresholds set by the operator
C16_Witness ==
    /\ Ran
    /\ StoredPowers = <<100, 100, 100, 1000>>
    /\ powerThreshold = 200
    /\ voltageThreshold = 250
    /\ Len(alerts) > 0

\* the draft's threshold is a number and its message is not empty
ValidDraft(form) == ~ParseValue(form.value).nan /\ form.message # ""

\* C17: saveRule accepts the draft exactly when its threshold is a number and
\* its message is not empty; so it accepts the draft that editRule made of a
\* Rule whose threshold is 0 and that is saved again as it is.
C17_AcceptsIffValid ==
    [][SaveStep => (lastOp'.op = "saveRule" <=> ValidDraft(ruleForm))]_vars

\* C18: no two Rules in the Rule Store have the same id, whatever saveRule,
\* editRule, deleteRule and clearData did before, and even if two Rules were
\* created at one value of the clock.
C18_UniqueRuleIds ==
    \A i, j \in 1..Len(rules) : i # j => rules[i]._id # rules[j]._id

\* C19: every Reading stored by a run of processData has a power and a voltage
\* that are not negative, also when the rows carry negative numbers.
C19_ReadingsNotNegative ==
    Ran => \A k \in 1..Len(panels) : panels[k].powerOut >= 0 /\ panels[k].voltage >= 0

====
